---- MODULE Spec2Model ----
(***************************************************************************)
(* Model of the three OpenRazer diagnostic scripts:                        *)
(*   scripts/debug_workflow.py, scripts/test_system.py and                 *)
(*   examples/test_device_capabilities.py.                                 *)
(* One run of one script is one behaviour.  The shell commands, the client *)
(* library and the file system are the environment: every call into them   *)
(* draws its outcome with \E from the outcomes the call can have.          *)
(***************************************************************************)
EXTENDS Integers, Sequences, FiniteSets, TLC

(* ---------------------------------------------------------------------- *)
(* Bounds                                                                  *)
(* ---------------------------------------------------------------------- *)
\* largest number of devices the DeviceManager reports
MaxDevices == 2

(* ---------------------------------------------------------------------- *)
(* Values                                                                  *)
(* ---------------------------------------------------------------------- *)
Scripts == {"debug_workflow", "test_system", "test_device_capabilities"}

\* what a captured stdout can look like, as far as the scripts inspect it
StdoutVals == {"", " ", "text", "active", "inactive", "Found 1 devices"}

\* str.strip(): whitespace-only text becomes the empty string
Strip(s) == IF s = " " THEN "" ELSE s

\* "active" in s
ContainsActive(s) == s \in {"active", "inactive"}

\* "Found" in s
ContainsFound(s) == s = "Found 1 devices"

\* truth value of the Python expression `success and stdout.strip()`
SuccessAndOutput(r) == r.success /\ Strip(r.stdout) # ""

\* what can happen to a command handed to subprocess.run
CommandOutcomes ==
    [kind : {"exit"}, rc0 : BOOLEAN, stdout : StdoutVals]
      \cup {[kind |-> "never_finishes", rc0 |-> FALSE, stdout |-> ""],
            [kind |-> "launch_error", rc0 |-> FALSE, stdout |-> ""]}

Commands == {"lsusb", "lsmod", "dkms", "find_modules", "find_sysfs",
             "systemctl", "journalctl", "python_import",
             "python_test_devices", "groups"}

\* the value of PYTHONPATH as its ':'-separated components; <<>> is unset/empty
PythonPaths == {<<>>, <<"/other">>, <<"pylib">>}

\* marker for a local that holds no brightness value yet
Unset == -1

\* marker: the import subprocess has not been started
NotRun == <<"(not run)">>

\* the value both brightness checks write
TestBrightness == 128

\* brightness values a device can hold
BrightnessVals == {0, 50, TestBrightness}

\* reading an attribute of a library object
ReadOutcomes == {"ok", "raise"}

\* hasattr(obj, name): only AttributeError means absent, any other exception
\* of the attribute's getter propagates
HasattrOutcomes == {"present", "absent", "raise"}

\* assigning matrix.brightness: the device takes the value, takes another
\* value, or the call raises
WriteOutcomes == {"ok", "inexact", "raise"}

\* importlib.util.find_spec(module_name) inside check_import
ImportOutcomes == {"found", "not_found", "import_error", "other_error"}

\* test_system.check_import: ImportError, ModuleNotFoundError and ValueError
\* become False, any other exception leaves the function
check_import(o) ==
    IF o = "found" THEN [returns |-> TRUE, value |-> TRUE]
    ELSE IF o \in {"not_found", "import_error"} THEN [returns |-> TRUE, value |-> FALSE]
    ELSE [returns |-> FALSE, value |-> FALSE]

\* test_system.run_command: subprocess.run(...) without a timeout; a command
\* that never finishes never returns
ts_run_command(o) ==
    IF o.kind = "exit"
      THEN [returns |-> TRUE, success |-> o.rc0, stdout |-> o.stdout, stderr |-> "stderr"]
      ELSE IF o.kind = "never_finishes"
        THEN [returns |-> FALSE, success |-> FALSE, stdout |-> "", stderr |-> ""]
        ELSE [returns |-> TRUE, success |-> FALSE, stdout |-> "", stderr |-> "error"]

\* the static colours test_lighting_capabilities sets on the matrix, in order
StaticColours == <<"red", "green", "blue">>

\* effects_to_test
effects_to_test == <<"breath_random", "wave", "reactive", "spectrum">>

\* the attributes test_other_capabilities probes, in order
Capabilities == <<"dpi", "battery_level", "is_charging", "idle_time", "game_mode_led">>

\* test6_increment without line 161: an empty device list earns no pass
test6_increment_no_skip(have_devices, outer_raised) ==
    IF outer_raised \/ ~have_devices THEN 0 ELSE 1

\* test 6: what the outer try adds to tests_passed (lines 158, 161, 163)
test6_increment(have_devices, outer_raised) == IF outer_raised THEN 0 ELSE 1

\* ts_summary with the second threshold off by one (total - 2)
ts_summary_lenient(passed, total) ==
    IF passed = total THEN [msg |-> "All tests passed", ret |-> 0]
    ELSE IF passed >= total - 2 THEN [msg |-> "Most tests passed", ret |-> 0]
    ELSE [msg |-> "Multiple tests failed", ret |-> 1]

\* the summary of test_system.main: the message and the return value
ts_summary(passed, total) ==
    IF passed = total THEN [msg |-> "All tests passed", ret |-> 0]
    ELSE IF passed >= total - 1 THEN [msg |-> "Most tests passed", ret |-> 0]
    ELSE [msg |-> "Multiple tests failed", ret |-> 1]

\* debug_workflow.run_command: subprocess.run(..., timeout=10); every
\* outcome comes back as a (success, stdout, stderr) triple
dw_run_command(o) ==
    IF o.kind = "exit"
      THEN [returns |-> TRUE, success |-> o.rc0, stdout |-> o.stdout, stderr |-> "stderr"]
      ELSE IF o.kind = "never_finishes"
        THEN [returns |-> TRUE, success |-> FALSE, stdout |-> "", stderr |-> "Timeout"]
        ELSE [returns |-> TRUE, success |-> FALSE, stdout |-> "", stderr |-> "error"]

\* check_step: returns the truth of its condition
check_step(condition) == condition

\* pylib_path + ':' + env.get('PYTHONPATH', '')
PrependPylib(old) == <<"pylib">> \o (IF old = <<>> THEN <<"">> ELSE old)

\* step4_gate with `or` in place of `and`
step4_gate_or(hw, mods) == hw \/ mods

\* the gate of step 4: `if has_hardware and has_modules`
step4_gate(hw, mods) == hw /\ mods

\* the gate of step 7: `if python_works`
step7_gate(py) == py

\* main_return_value as a flag: 1 if anything was found
main_return_flag(issues) == IF Len(issues) > 0 THEN 1 ELSE 0

\* main() returns len(issues_found)
main_return_value(issues) == Len(issues)

\* sys.exit(n): the status the parent sees is one byte
ExitStatus(n) == n % 256

(* ---------------------------------------------------------------------- *)
(* State                                                                   *)
(* ---------------------------------------------------------------------- *)
VARIABLES
    script,          \* which script this run executes
    pc,              \* position in the script
    steps,           \* the steps/tests executed so far, in execution order
    attempts,        \* per command: how many times subprocess.run was called
    blocked,         \* the script waits on a command that never finishes
    raised,          \* an exception propagated out of main()
    interrupted,     \* KeyboardInterrupt was delivered
    exit_code,       \* process exit status, -1 while running
    printed,         \* the summary lines printed so far
    \* debug_workflow.main locals
    issues_found, has_hardware, has_modules, python_works,
    checks_failed,   \* how many check_step calls returned False
    reported,        \* the N of "Found N issue(s)", -1 while not printed
    os_pythonpath,   \* os.environ['PYTHONPATH']
    pylib_exists,    \* os.path.exists(pylib_path)
    env_pythonpath,  \* env['PYTHONPATH'] of the local copy
    sub_pythonpath,  \* PYTHONPATH seen by the import subprocess, or NotRun
    tmp_file,        \* /tmp/test_devices.py exists
    \* test_system.main locals
    tests_passed, total_tests,
    results,         \* per finished test, in order: was it counted as passed
    failed_call,     \* test 6: the call outside the inner try that raised, or "none"
    \* the client library's devices
    n_devices,       \* how many devices the daemon knows
    brightness,      \* lighting_led_matrix.brightness of the device under test
    \* the brightness check (test_system test 6, test_lighting_capabilities)
    original_brightness,  \* local: the value saved before the write, or Unset
    brightness_before,    \* the device's brightness when the check began
    wrote128,             \* the check has written 128 to the device
    restore_written,      \* the check has written original_brightness back
    lighting_raised,      \* a call inside a lighting try block raised
    check_ended,          \* the brightness check is over
    \* test_device_capabilities locals
    dev_i,                \* index of the device under test, 0 before the loop
    ret,                  \* what main() returned, -1 before it returns
    has_lighting,         \* test_lighting_capabilities: has_lighting
    has_fx,               \* what hasattr(device, 'fx') answered
    has_matrix, has_logo, has_scroll,   \* what hasattr(fx, ...) answered
    lighting_ret,         \* result of test_lighting_capabilities: "none", "True", "False"
    other_ret,            \* result of test_other_capabilities: "none", "True", "False"
    capabilities_tested,  \* test_other_capabilities: capabilities_tested
    caps_read,            \* the capabilities that were counted in capabilities_tested
    caps_attr_ok,         \* the capabilities found present whose own attribute read did not raise
    cap_i, eff_i, static_i,  \* positions in the capability, effect and colour lists
    statics_tried,        \* the static colours set on the matrix, in call order
    static_failed_at,     \* index of the static colour that raised, 0 if none
    effects_present,      \* the effects for which hasattr(matrix, name) held
    effects_tried,        \* the effects called, in call order
    effect_failed_at,     \* index of the first effect that raised, 0 if none
    print_attrs_called,   \* the devices print_attrs was called for
    tested                \* the per-device test functions called, in call order

dwvars == <<issues_found, has_hardware, has_modules, python_works,
            checks_failed, reported, os_pythonpath, pylib_exists, env_pythonpath, sub_pythonpath, tmp_file>>
ctlvars == <<script, pc, steps, attempts, blocked, raised, interrupted,
             exit_code, printed>>
tsvars == <<tests_passed, total_tests, results, failed_call>>
devvars == <<n_devices, brightness>>
chkvars == <<original_brightness, brightness_before, wrote128, restore_written,
             lighting_raised, check_ended>>
fnvars == <<has_lighting, has_fx, has_matrix, has_logo, has_scroll, lighting_ret,
            other_ret, capabilities_tested, caps_read, caps_attr_ok, cap_i, eff_i, static_i,
            statics_tried, static_failed_at, effects_present, effects_tried,
            effect_failed_at>>
dcvars == <<dev_i, ret, fnvars, print_attrs_called, tested>>
vars == <<ctlvars, dwvars, tsvars, devvars, chkvars, dcvars>>

Ran(c) == attempts' = [attempts EXCEPT ![c] = @ + 1]
Ran2(c, d) == attempts' = [attempts EXCEPT ![c] = @ + 1, ![d] = @ + 1]

(* ---------------------------------------------------------------------- *)
(* Initial state                                                           *)
(* ---------------------------------------------------------------------- *)
InitCtl ==
    /\ steps = <<>>
    /\ attempts = [c \in Commands |-> 0]
    /\ blocked = FALSE
    /\ raised = FALSE
    /\ interrupted = FALSE
    /\ exit_code = -1
    /\ printed = {}

InitDwLocals ==
    /\ issues_found = <<>>
    /\ has_hardware = FALSE
    /\ has_modules = FALSE
    /\ python_works = FALSE
    /\ checks_failed = 0
    /\ reported = -1
    /\ env_pythonpath = <<>>
    /\ sub_pythonpath = NotRun
    /\ tmp_file = FALSE

InitTsLocals ==
    /\ tests_passed = 0
    /\ total_tests = 0
    /\ results = <<>>
    /\ failed_call = "none"

InitCheck ==
    /\ original_brightness = Unset
    /\ brightness_before = brightness
    /\ wrote128 = FALSE
    /\ restore_written = FALSE
    /\ lighting_raised = FALSE
    /\ check_ended = FALSE

\* a run of debug_workflow.py
InitDw ==
    /\ script = "debug_workflow"
    /\ pc = "step1"
    /\ os_pythonpath \in PythonPaths
    /\ pylib_exists \in BOOLEAN
    /\ n_devices = 0
    /\ brightness = 0

\* a run of test_system.py
InitTs ==
    /\ script = "test_system"
    /\ pc = "test1"
    /\ os_pythonpath = <<>>
    /\ pylib_exists = FALSE
    /\ n_devices \in 0..MaxDevices
    /\ brightness \in BrightnessVals

\* the locals of one pass through the per-device test functions
InitFn ==
    /\ has_lighting = FALSE
    /\ has_fx = FALSE
    /\ has_matrix = FALSE
    /\ has_logo = FALSE
    /\ has_scroll = FALSE
    /\ lighting_ret = "none"
    /\ other_ret = "none"
    /\ capabilities_tested = 0
    /\ caps_read = {}
    /\ caps_attr_ok = {}
    /\ cap_i = 1
    /\ eff_i = 1
    /\ static_i = 1
    /\ statics_tried = <<>>
    /\ static_failed_at = 0
    /\ effects_present = {}
    /\ effects_tried = <<>>
    /\ effect_failed_at = 0

InitDcLocals ==
    /\ dev_i = 0
    /\ ret = -1
    /\ print_attrs_called = {}
    /\ tested = <<>>
    /\ InitFn

\* a run of test_device_capabilities.py
InitDc ==
    /\ script = "test_device_capabilities"
    /\ pc = "connect"
    /\ os_pythonpath = <<>>
    /\ pylib_exists = FALSE
    /\ n_devices \in 0..MaxDevices
    /\ brightness \in BrightnessVals

Init ==
    /\ InitCtl /\ InitDwLocals /\ InitTsLocals /\ InitDcLocals
    /\ (InitDw \/ InitTs \/ InitDc)
    /\ InitCheck

(* ---------------------------------------------------------------------- *)
(* debug_workflow.py                                                       *)
(* ---------------------------------------------------------------------- *)
DwAt(p) == script = "debug_workflow" /\ pc = p

\* `if not <check_step result>: issues_found.append(label)`
Record(ok, label) ==
    /\ issues_found' = IF ok THEN issues_found ELSE Append(issues_found, label)
    /\ checks_failed' = IF ok THEN checks_failed ELSE checks_failed + 1

\* Step 1: lsusb | grep 1532
DwStep1 ==
    /\ DwAt("step1")
    /\ \E o \in CommandOutcomes :
         LET r == dw_run_command(o)
             ok == check_step(SuccessAndOutput(r))
         IN /\ has_hardware' = ok
            /\ Record(ok, "No hardware detected")
    /\ Ran("lsusb")
    /\ steps' = Append(steps, "step1")
    /\ pc' = "step2"
    /\ UNCHANGED <<tsvars, devvars, chkvars, dcvars>>
    /\ UNCHANGED <<script, blocked, raised, interrupted, exit_code, printed, reported,
                   has_modules, python_works, os_pythonpath, pylib_exists,
                   env_pythonpath, sub_pythonpath, tmp_file>>

\* Step 2: lsmod | grep razer, and dkms status when no module is loaded
DwStep2 ==
    /\ DwAt("step2")
    /\ \E o \in CommandOutcomes, d \in CommandOutcomes :
         LET r == dw_run_command(o)
             ok == check_step(SuccessAndOutput(r))
         IN /\ has_modules' = ok
            /\ Record(ok, "Kernel modules not loaded")
            /\ IF ok THEN Ran("lsmod")
                     ELSE /\ dw_run_command(d).returns
                          /\ Ran2("lsmod", "dkms")
    /\ steps' = Append(steps, "step2")
    /\ pc' = "step3"
    /\ UNCHANGED <<tsvars, devvars, chkvars, dcvars>>
    /\ UNCHANGED <<script, blocked, raised, interrupted, exit_code, printed, reported,
                   has_hardware, python_works, os_pythonpath, pylib_exists,
                   env_pythonpath, sub_pythonpath, tmp_file>>

\* Step 3: find /lib/modules/$(uname -r) -name '*razer*'
DwStep3 ==
    /\ DwAt("step3")
    /\ \E o \in CommandOutcomes :
         LET r == dw_run_command(o)
             ok == check_step(SuccessAndOutput(r))
         IN Record(ok, "Module files missing")
    /\ Ran("find_modules")
    /\ steps' = Append(steps, "step3")
    /\ pc' = "step4"
    /\ UNCHANGED <<tsvars, devvars, chkvars, dcvars>>
    /\ UNCHANGED <<script, blocked, raised, interrupted, exit_code, printed, reported,
                   has_hardware, has_modules, python_works, os_pythonpath,
                   pylib_exists, env_pythonpath, sub_pythonpath, tmp_file>>

\* Step 4: device files in sysfs, only with hardware and modules
DwStep4 ==
    /\ DwAt("step4")
    /\ IF step4_gate(has_hardware, has_modules)
         THEN /\ \E o \in CommandOutcomes :
                   LET r == dw_run_command(o)
                       ok == check_step(SuccessAndOutput(r))
                   IN Record(ok, "Device files not created")
              /\ Ran("find_sysfs")
              /\ steps' = Append(steps, "step4")
         ELSE UNCHANGED <<issues_found, checks_failed, attempts, steps>>
    /\ pc' = "step5"
    /\ UNCHANGED <<tsvars, devvars, chkvars, dcvars>>
    /\ UNCHANGED <<script, blocked, raised, interrupted, exit_code, printed, reported,
                   has_hardware, has_modules, python_works, os_pythonpath,
                   pylib_exists, env_pythonpath, sub_pythonpath, tmp_file>>

\* Step 5: systemctl is-active, and journalctl when the daemon is not running
DwStep5 ==
    /\ DwAt("step5")
    /\ \E o \in CommandOutcomes, j \in CommandOutcomes :
         LET r == dw_run_command(o)
             ok == check_step(r.success /\ ContainsActive(r.stdout))
         IN /\ Record(ok, "Daemon not running")
            /\ IF ok THEN Ran("systemctl")
                     ELSE /\ dw_run_command(j).returns
                          /\ Ran2("systemctl", "journalctl")
    /\ steps' = Append(steps, "step5")
    /\ pc' = "step6"
    /\ UNCHANGED <<tsvars, devvars, chkvars, dcvars>>
    /\ UNCHANGED <<script, blocked, raised, interrupted, exit_code, printed, reported,
                   has_hardware, has_modules, python_works, os_pythonpath,
                   pylib_exists, env_pythonpath, sub_pythonpath, tmp_file>>

\* the environment run_command hands to subprocess.run: none is passed, so
\* the child inherits os.environ
SubprocessPythonPath(osenv, env) == osenv

\* Step 6: env = os.environ.copy(); env['PYTHONPATH'] = ...; run the import
DwStep6 ==
    /\ DwAt("step6")
    /\ env_pythonpath' = IF pylib_exists THEN PrependPylib(os_pythonpath)
                                         ELSE os_pythonpath
    /\ sub_pythonpath' = SubprocessPythonPath(os_pythonpath, env_pythonpath')
    /\ \E o \in CommandOutcomes :
         LET r == dw_run_command(o)
             ok == check_step(r.success)
         IN /\ python_works' = ok
            /\ Record(ok, "Python library import failed")
    /\ Ran("python_import")
    /\ steps' = Append(steps, "step6")
    /\ pc' = "step7"
    /\ UNCHANGED <<tsvars, devvars, chkvars, dcvars>>
    /\ UNCHANGED <<script, blocked, raised, interrupted, exit_code, printed, reported,
                   has_hardware, has_modules, os_pythonpath, pylib_exists, tmp_file>>

\* Step 7: write /tmp/test_devices.py, run it, remove it; only if step 6 passed.
\* The open()/write() is not inside a try: when it raises, main() is left.
DwStep7 ==
    /\ DwAt("step7")
    /\ IF step7_gate(python_works)
         THEN /\ steps' = Append(steps, "step7")
              /\ \E write_ok \in BOOLEAN :
                   IF write_ok
                     THEN /\ \E o \in CommandOutcomes :
                               LET r == dw_run_command(o)
                                   ok == check_step(r.success /\ ContainsFound(r.stdout))
                               IN Record(ok, "Device detection failed")
                          /\ Ran("python_test_devices")
                          \* os.remove inside try/except: pass
                          /\ tmp_file' \in BOOLEAN
                          /\ pc' = "step8"
                          /\ UNCHANGED raised
                     ELSE /\ raised' = TRUE
                          /\ pc' = "main_raised"
                          /\ UNCHANGED <<issues_found, checks_failed, attempts, tmp_file>>
         ELSE /\ pc' = "step8"
              /\ UNCHANGED <<issues_found, checks_failed, attempts, steps, raised,
                             tmp_file>>
    /\ UNCHANGED <<tsvars, devvars, chkvars, dcvars>>
    /\ UNCHANGED <<script, blocked, interrupted, exit_code, printed, reported,
                   has_hardware, has_modules, python_works, os_pythonpath,
                   pylib_exists, env_pythonpath, sub_pythonpath>>

\* Step 8: groups | grep plugdev
DwStep8 ==
    /\ DwAt("step8")
    /\ \E o \in CommandOutcomes :
         LET r == dw_run_command(o)
             ok == check_step(r.success)
         IN Record(ok, "User not in plugdev group")
    /\ Ran("groups")
    /\ steps' = Append(steps, "step8")
    /\ pc' = "summary"
    /\ UNCHANGED <<tsvars, devvars, chkvars, dcvars>>
    /\ UNCHANGED <<script, blocked, raised, interrupted, exit_code, printed, reported,
                   has_hardware, has_modules, python_works, os_pythonpath,
                   pylib_exists, env_pythonpath, sub_pythonpath, tmp_file>>

\* DEBUG SUMMARY
DwSummary ==
    /\ DwAt("summary")
    /\ printed' = printed \cup {"DEBUG SUMMARY",
                                IF issues_found = <<>> THEN "No issues detected"
                                                       ELSE "Found N issue(s)"}
    /\ reported' = IF issues_found = <<>> THEN reported ELSE Len(issues_found)
    /\ steps' = Append(steps, "summary")
    /\ pc' = "main_returned"
    /\ UNCHANGED <<script, attempts, blocked, raised, interrupted, exit_code,
                   issues_found, has_hardware, has_modules, python_works,
                   checks_failed, os_pythonpath, pylib_exists, env_pythonpath,
                   sub_pythonpath, tmp_file, tsvars, devvars, chkvars, dcvars>>

\* __main__: exit_code = main(); sys.exit(exit_code)
DwExit ==
    /\ DwAt("main_returned")
    /\ exit_code' = ExitStatus(main_return_value(issues_found))
    /\ pc' = "exited"
    /\ UNCHANGED <<script, steps, attempts, blocked, raised, interrupted, printed, dwvars,
                   tsvars, devvars, chkvars, dcvars>>

\* __main__: except Exception: print("Unexpected error"); sys.exit(1)
DwUnexpectedError ==
    /\ DwAt("main_raised")
    /\ exit_code' = ExitStatus(1)
    /\ printed' = printed \cup {"Unexpected error"}
    /\ pc' = "exited"
    /\ UNCHANGED <<script, steps, attempts, blocked, raised, interrupted, dwvars,
                   tsvars, devvars, chkvars, dcvars>>

DwInMain == {"step1", "step2", "step3", "step4", "step5", "step6", "step7",
             "step8", "summary"}

\* __main__: except KeyboardInterrupt: sys.exit(1)
DwKeyboardInterrupt ==
    /\ script = "debug_workflow"
    /\ pc \in DwInMain
    /\ interrupted' = TRUE
    /\ exit_code' = ExitStatus(1)
    /\ printed' = printed \cup {"Debugging interrupted by user."}
    /\ pc' = "exited"
    /\ UNCHANGED <<script, steps, attempts, blocked, raised, dwvars,
                   tsvars, devvars, chkvars, dcvars>>

DwNext ==
    \/ DwStep1 \/ DwStep2 \/ DwStep3 \/ DwStep4 \/ DwStep5 \/ DwStep6
    \/ DwStep7 \/ DwStep8 \/ DwSummary \/ DwExit \/ DwUnexpectedError
    \/ DwKeyboardInterrupt

(* ---------------------------------------------------------------------- *)
(* test_system.py                                                          *)
(* ---------------------------------------------------------------------- *)
TsAt(p) == script = "test_system" /\ pc = p /\ ~blocked

\* a finished test adds n (0 or 1) to tests_passed
Count(n) ==
    /\ tests_passed' = tests_passed + n
    /\ results' = Append(results, n > 0)

\* tests 1, 2 and 5: total_tests += 1, one shell command with result r, and
\* the test's pass condition evaluated on r
TsShellTest(here, next, cmd, r, passed) ==
    /\ TsAt(here)
    /\ total_tests' = total_tests + 1
    /\ Ran(cmd)
    /\ steps' = Append(steps, here)
    /\ IF r.returns
         THEN /\ Count(IF passed THEN 1 ELSE 0)
              /\ pc' = next
              /\ UNCHANGED blocked
         ELSE /\ blocked' = TRUE
              /\ UNCHANGED <<tests_passed, results, pc>>
    /\ UNCHANGED <<script, raised, interrupted, exit_code, printed, dwvars,
                   failed_call, devvars, chkvars, dcvars>>

DaemonActive(r) == r.success /\ ContainsActive(r.stdout)

\* Test 1: lsusb | grep 1532
TsTest1 ==
    \E o \in CommandOutcomes :
      TsShellTest("test1", "test2", "lsusb", ts_run_command(o),
                  SuccessAndOutput(ts_run_command(o)))

\* Test 2: lsmod | grep razer
TsTest2 ==
    \E o \in CommandOutcomes :
      TsShellTest("test2", "test3", "lsmod", ts_run_command(o),
                  SuccessAndOutput(ts_run_command(o)))

\* Test 3: check_import("openrazer.client")
TsTest3 ==
    /\ TsAt("test3")
    /\ total_tests' = total_tests + 1
    /\ steps' = Append(steps, "test3")
    /\ \E o \in ImportOutcomes :
         LET r == check_import(o)
         IN IF r.returns
              THEN /\ Count(IF r.value THEN 1 ELSE 0)
                   /\ pc' = "test4"
                   /\ UNCHANGED raised
              ELSE /\ raised' = TRUE
                   /\ pc' = "main_raised"
                   /\ UNCHANGED <<tests_passed, results>>
    /\ UNCHANGED <<script, attempts, blocked, interrupted, exit_code, printed,
                   dwvars, failed_call, devvars, chkvars, dcvars>>

\* Test 4: DeviceManager(), len(devices), name and serial of every device;
\* the whole test is inside one try/except Exception
TsTest4 ==
    /\ TsAt("test4")
    /\ total_tests' = total_tests + 1
    /\ steps' = Append(steps, "test4")
    /\ \E calls \in ReadOutcomes :
         Count(IF calls = "ok" /\ n_devices > 0 THEN 1 ELSE 0)
    /\ pc' = "test5"
    /\ UNCHANGED <<script, attempts, blocked, raised, interrupted, exit_code,
                   printed, dwvars, failed_call, devvars, chkvars, dcvars>>

\* Test 5: systemctl is-active openrazer-daemon
TsTest5 ==
    \E o \in CommandOutcomes :
      TsShellTest("test5", "test6", "systemctl", ts_run_command(o),
                  DaemonActive(ts_run_command(o)))

\* Test 6, lines 121-128: the import, DeviceManager() and the device list
Test6OpenCalls == {"import", "DeviceManager", "devices"}

TsTest6Open ==
    /\ TsAt("test6")
    /\ total_tests' = total_tests + 1
    /\ steps' = Append(steps, "test6")
    /\ \E f \in Test6OpenCalls \cup {"none"} :
         /\ failed_call' = f
         /\ IF f # "none"
              THEN /\ Count(test6_increment(FALSE, TRUE))
                   /\ pc' = "summary"
              ELSE IF n_devices = 0
                THEN /\ Count(test6_increment(FALSE, FALSE))
                     /\ pc' = "summary"
                ELSE /\ pc' = "t6_props"
                     /\ UNCHANGED <<tests_passed, results>>
    /\ UNCHANGED <<script, attempts, blocked, raised, interrupted, exit_code,
                   printed, dwvars, devvars, chkvars, dcvars>>

\* Test 6, lines 129-135: devices[0] and its printed properties
Test6PropCalls == {"devices[0]", "name", "type", "firmware_version", "driver_version"}

TsTest6Props ==
    /\ TsAt("t6_props")
    /\ \E f \in Test6PropCalls \cup {"none"} :
         /\ failed_call' = f
         /\ IF f # "none"
              THEN /\ Count(test6_increment(TRUE, TRUE))
                   /\ pc' = "summary"
              ELSE /\ pc' = "t6_probe"
                   /\ UNCHANGED <<tests_passed, results>>
    /\ UNCHANGED <<script, steps, attempts, blocked, raised, interrupted,
                   exit_code, printed, dwvars, total_tests, devvars, chkvars, dcvars>>

\* Test 6, line 138: hasattr(device, 'fx') and hasattr(device.fx, 'lighting_led_matrix')
TsTest6Probe ==
    /\ TsAt("t6_probe")
    /\ \E h1 \in HasattrOutcomes, g \in ReadOutcomes, h2 \in HasattrOutcomes :
         IF h1 = "raise" \/ (h1 = "present" /\ (g = "raise" \/ h2 = "raise"))
           THEN /\ failed_call' = IF h1 = "raise" THEN "hasattr(device, 'fx')"
                                  ELSE IF g = "raise" THEN "device.fx"
                                  ELSE "hasattr(device.fx, 'lighting_led_matrix')"
                /\ Count(test6_increment(TRUE, TRUE))
                /\ pc' = "summary"
           ELSE IF h1 = "present" /\ h2 = "present"
             THEN /\ pc' = "t6_orig"
                  /\ UNCHANGED <<failed_call, tests_passed, results>>
             ELSE /\ Count(test6_increment(TRUE, FALSE))
                  /\ pc' = "summary"
                  /\ UNCHANGED failed_call
    /\ UNCHANGED <<script, steps, attempts, blocked, raised, interrupted,
                   exit_code, printed, dwvars, total_tests, devvars, chkvars, dcvars>>

\* the inner `except Exception` of test 6, then line 158
TsLightingFailed ==
    /\ lighting_raised' = TRUE
    /\ check_ended' = TRUE
    /\ Count(test6_increment(TRUE, FALSE))
    /\ pc' = "summary"

\* line 141: original_brightness = device.fx.lighting_led_matrix.brightness
TsSaveBrightness ==
    /\ TsAt("t6_orig")
    /\ \E g \in ReadOutcomes :
         IF g = "ok"
           THEN /\ original_brightness' = brightness
                /\ pc' = "t6_set"
                /\ UNCHANGED <<lighting_raised, check_ended, tests_passed, results>>
           ELSE /\ TsLightingFailed
                /\ UNCHANGED original_brightness
    /\ UNCHANGED <<script, steps, attempts, blocked, raised, interrupted,
                   exit_code, printed, dwvars, total_tests, failed_call, devvars,
                   brightness_before, wrote128, restore_written, dcvars>>

\* the device's side of `matrix.brightness = v`
DeviceStores(w, v, d) == IF w = "ok" THEN v ELSE IF w = "inexact" THEN d ELSE brightness

\* line 144: device.fx.lighting_led_matrix.brightness = 128
TsSetBrightness ==
    /\ TsAt("t6_set")
    /\ \E w \in WriteOutcomes, d \in BrightnessVals :
         /\ brightness' = DeviceStores(w, TestBrightness, d)
         /\ IF w # "raise"
              THEN /\ wrote128' = TRUE
                   /\ pc' = "t6_readback"
                   /\ UNCHANGED <<lighting_raised, check_ended, tests_passed, results>>
              ELSE /\ TsLightingFailed
                   /\ UNCHANGED wrote128
    /\ UNCHANGED <<script, steps, attempts, blocked, raised, interrupted,
                   exit_code, printed, dwvars, total_tests, failed_call, n_devices,
                   original_brightness, brightness_before, restore_written, dcvars>>

\* lines 145-150: current_brightness = ...brightness; compare with 128
TsReadBack ==
    /\ TsAt("t6_readback")
    /\ \E g \in ReadOutcomes :
         IF g = "ok"
           THEN /\ printed' = printed \cup
                     {IF brightness = TestBrightness THEN "Brightness control: ok"
                                                     ELSE "Brightness control: failed"}
                /\ pc' = "t6_restore"
                /\ UNCHANGED <<lighting_raised, check_ended, tests_passed, results>>
           ELSE /\ TsLightingFailed
                /\ UNCHANGED printed
    /\ UNCHANGED <<script, steps, attempts, blocked, raised, interrupted,
                   exit_code, dwvars, total_tests, failed_call, devvars,
                   original_brightness, brightness_before, wrote128, restore_written, dcvars>>

\* line 153: device.fx.lighting_led_matrix.brightness = original_brightness,
\* then line 158
TsRestoreBrightness ==
    /\ TsAt("t6_restore")
    /\ \E w \in WriteOutcomes, d \in BrightnessVals :
         /\ brightness' = DeviceStores(w, original_brightness, d)
         /\ restore_written' = (w # "raise")
         /\ lighting_raised' = (w = "raise")
    /\ check_ended' = TRUE
    /\ Count(test6_increment(TRUE, FALSE))
    /\ pc' = "summary"
    /\ UNCHANGED <<script, steps, attempts, blocked, raised, interrupted,
                   exit_code, printed, dwvars, total_tests, failed_call, n_devices,
                   original_brightness, brightness_before, wrote128, dcvars>>

\* lines 166-180: the summary and the return value
TsSummary ==
    /\ TsAt("summary")
    /\ printed' = printed \cup {"Test Results", ts_summary(tests_passed, total_tests).msg}
    /\ steps' = Append(steps, "summary")
    /\ pc' = "main_returned"
    /\ UNCHANGED <<script, attempts, blocked, raised, interrupted, exit_code,
                   dwvars, tsvars, devvars, chkvars, dcvars>>

\* sys.exit(main())
TsExit ==
    /\ TsAt("main_returned")
    /\ exit_code' = ExitStatus(ts_summary(tests_passed, total_tests).ret)
    /\ pc' = "exited"
    /\ UNCHANGED <<script, steps, attempts, blocked, raised, interrupted, printed,
                   dwvars, tsvars, devvars, chkvars, dcvars>>

\* an exception that left main() ends the interpreter with status 1
UncaughtExit ==
    /\ script \in {"test_system", "test_device_capabilities"}
    /\ pc = "main_raised"
    /\ exit_code' = ExitStatus(1)
    /\ printed' = printed \cup {"Traceback"}
    /\ pc' = "exited"
    /\ UNCHANGED <<script, steps, attempts, blocked, raised, interrupted,
                   dwvars, tsvars, devvars, chkvars, dcvars>>

TsNext ==
    \/ TsTest1 \/ TsTest2 \/ TsTest3 \/ TsTest4 \/ TsTest5
    \/ TsTest6Open \/ TsTest6Props \/ TsTest6Probe
    \/ TsSaveBrightness \/ TsSetBrightness \/ TsReadBack \/ TsRestoreBrightness
    \/ TsSummary \/ TsExit

(* ---------------------------------------------------------------------- *)
(* test_device_capabilities.py                                             *)
(* ---------------------------------------------------------------------- *)
DcAt(p) == script = "test_device_capabilities" /\ pc = p

\* an exception nobody catches leaves main()
DcPropagate ==
    /\ raised' = TRUE
    /\ pc' = "main_raised"

Called(fn) == tested' = Append(tested, [fn |-> fn, dev |-> dev_i])

\* main, lines 194-212: DeviceManager(), .devices, the empty-list check
DcConnect ==
    /\ DcAt("connect")
    /\ \E dm \in ReadOutcomes, dv \in ReadOutcomes :
         IF dm = "raise"
           THEN /\ ret' = 1
                /\ printed' = printed \cup {"Error connecting to OpenRazer daemon"}
                /\ pc' = "main_returned"
                /\ UNCHANGED <<raised, dev_i>>
           ELSE IF dv = "raise"
             THEN /\ DcPropagate
                  /\ UNCHANGED <<ret, printed, dev_i>>
             ELSE IF n_devices = 0
               THEN /\ ret' = 1
                    /\ printed' = printed \cup {"No OpenRazer devices found."}
                    /\ pc' = "main_returned"
                    /\ UNCHANGED <<raised, dev_i>>
               ELSE /\ dev_i' = 1
                    /\ pc' = "info"
                    /\ UNCHANGED <<raised, ret, printed>>
    /\ UNCHANGED <<script, steps, attempts, blocked, interrupted, exit_code,
                   dwvars, tsvars, devvars, chkvars, fnvars, print_attrs_called,
                   tested>>

\* the reads of test_device_info that no try guards; poll_rate is guarded
DeviceInfoCalls == {"name", "type", "serial", "firmware_version", "driver_version",
                    "hasattr(device, 'device_mode')", "device_mode",
                    "hasattr(device, 'poll_rate')"}

\* test_device_info(device)
DcDeviceInfo ==
    /\ DcAt("info")
    /\ Called("test_device_info")
    /\ \E f \in DeviceInfoCalls \cup {"none"} :
         /\ failed_call' = f
         /\ IF f # "none"
              THEN DcPropagate
              ELSE /\ pc' = "lighting"
                   /\ UNCHANGED raised
    /\ UNCHANGED <<script, steps, attempts, blocked, interrupted, exit_code,
                   printed, dwvars, tests_passed, total_tests, results, devvars,
                   chkvars, dev_i, ret, fnvars, print_attrs_called>>

\* test_lighting_capabilities, lines 36-50: device.name, hasattr(device, 'fx'),
\* device.fx, hasattr(fx, 'lighting_led_matrix'), fx.lighting_led_matrix
DcLightingEnter ==
    /\ DcAt("lighting")
    /\ Called("test_lighting_capabilities")
    /\ \E nm \in ReadOutcomes, h \in HasattrOutcomes, g \in ReadOutcomes,
          hm \in HasattrOutcomes, m \in ReadOutcomes :
         IF nm = "raise" \/ h = "raise"
           THEN /\ DcPropagate
                /\ UNCHANGED <<has_lighting, has_fx, has_matrix, lighting_ret>>
           ELSE IF h = "absent"
             THEN /\ lighting_ret' = "False"
                  /\ pc' = "other"
                  /\ UNCHANGED <<raised, has_lighting, has_fx, has_matrix>>
             ELSE IF g = "raise" \/ hm = "raise"
               THEN /\ DcPropagate
                    /\ has_fx' = TRUE
                    /\ UNCHANGED <<has_lighting, has_matrix, lighting_ret>>
               ELSE IF hm = "absent"
                 THEN /\ pc' = "l_logo"
                      /\ has_fx' = TRUE
                      /\ UNCHANGED <<raised, has_lighting, has_matrix, lighting_ret>>
                 ELSE /\ has_fx' = TRUE
                      /\ has_matrix' = TRUE
                      /\ has_lighting' = TRUE
                      /\ UNCHANGED lighting_ret
                      /\ IF m = "raise"
                           THEN DcPropagate
                           ELSE /\ pc' = "l_orig"
                                /\ UNCHANGED raised
    /\ UNCHANGED <<script, steps, attempts, blocked, interrupted, exit_code,
                   printed, dwvars, tsvars, devvars, chkvars, dev_i, ret,
                   has_logo, has_scroll, other_ret, capabilities_tested, caps_read, caps_attr_ok,
                   cap_i, eff_i, static_i, statics_tried, static_failed_at,
                   effects_present, effects_tried, effect_failed_at,
                   print_attrs_called>>

\* the `except Exception` of the brightness block, line 66
DcBrightnessFailed ==
    /\ lighting_raised' = TRUE
    /\ check_ended' = TRUE
    /\ pc' = "l_static"

\* line 54: original_brightness = matrix.brightness
DcSaveBrightness ==
    /\ DcAt("l_orig")
    /\ \E g \in ReadOutcomes :
         IF g = "ok"
           THEN /\ original_brightness' = brightness
                /\ pc' = "l_set"
                /\ UNCHANGED <<lighting_raised, check_ended>>
           ELSE /\ DcBrightnessFailed
                /\ UNCHANGED original_brightness
    /\ UNCHANGED <<script, steps, attempts, blocked, raised, interrupted,
                   exit_code, printed, dwvars, tsvars, devvars,
                   brightness_before, wrote128, restore_written, dcvars>>

\* line 58: matrix.brightness = 128
DcSetBrightness ==
    /\ DcAt("l_set")
    /\ \E w \in WriteOutcomes, d \in BrightnessVals :
         /\ brightness' = DeviceStores(w, TestBrightness, d)
         /\ IF w # "raise"
              THEN /\ wrote128' = TRUE
                   /\ pc' = "l_readback"
                   /\ UNCHANGED <<lighting_raised, check_ended>>
              ELSE /\ DcBrightnessFailed
                   /\ UNCHANGED wrote128
    /\ UNCHANGED <<script, steps, attempts, blocked, raised, interrupted,
                   exit_code, printed, dwvars, tsvars, n_devices,
                   original_brightness, brightness_before, restore_written, dcvars>>

\* lines 59-61: time.sleep(0.1); new_brightness = matrix.brightness
DcReadBack ==
    /\ DcAt("l_readback")
    /\ \E g \in ReadOutcomes :
         IF g = "ok"
           THEN /\ pc' = "l_restore"
                /\ UNCHANGED <<lighting_raised, check_ended>>
           ELSE DcBrightnessFailed
    /\ UNCHANGED <<script, steps, attempts, blocked, raised, interrupted,
                   exit_code, printed, dwvars, tsvars, devvars,
                   original_brightness, brightness_before, wrote128,
                   restore_written, dcvars>>

\* line 64: matrix.brightness = original_brightness
DcRestoreBrightness ==
    /\ DcAt("l_restore")
    /\ \E w \in WriteOutcomes, d \in BrightnessVals :
         /\ brightness' = DeviceStores(w, original_brightness, d)
         /\ restore_written' = (w # "raise")
         /\ lighting_raised' = (w = "raise")
    /\ check_ended' = TRUE
    /\ pc' = "l_static"
    /\ UNCHANGED <<script, steps, attempts, blocked, raised, interrupted,
                   exit_code, printed, dwvars, tsvars, n_devices,
                   original_brightness, brightness_before, wrote128,
                   dcvars>>

\* what is left alone by the steps of test_lighting_capabilities after the
\* brightness block
LightingFrame ==
    UNCHANGED <<script, steps, attempts, blocked, interrupted, exit_code,
                printed, dwvars, tsvars, devvars, original_brightness,
                brightness_before, wrote128, restore_written,
                check_ended, dev_i, ret, other_ret, capabilities_tested,
                caps_read, caps_attr_ok, cap_i, print_attrs_called, tested>>

\* lines 70-83: the three matrix.static calls share one try block
DcStatic ==
    /\ DcAt("l_static")
    /\ statics_tried' = Append(statics_tried, StaticColours[static_i])
    /\ \E c \in ReadOutcomes :
         IF c = "raise"
           THEN /\ static_failed_at' = static_i
                /\ lighting_raised' = TRUE
                /\ pc' = "l_effects"
                /\ UNCHANGED static_i
           ELSE /\ IF static_i = Len(StaticColours)
                     THEN pc' = "l_effects" /\ UNCHANGED static_i
                     ELSE pc' = "l_static" /\ static_i' = static_i + 1
                /\ UNCHANGED <<static_failed_at, lighting_raised>>
    /\ UNCHANGED <<raised, has_lighting, has_fx, has_matrix, has_logo, has_scroll,
                   lighting_ret, eff_i, effects_present, effects_tried,
                   effect_failed_at>>
    /\ LightingFrame

\* where the effect loop goes after the effect at position i
AfterEffect(i) == IF i = Len(effects_to_test) THEN "l_logo" ELSE "l_effects"

\* lines 93-100: one pass of the loop over effects_to_test; each effect has
\* its own try block
DcEffect ==
    /\ DcAt("l_effects")
    /\ \E h \in HasattrOutcomes, c \in ReadOutcomes :
         IF h = "raise"
           THEN /\ DcPropagate
                /\ UNCHANGED <<eff_i, effects_present, effects_tried,
                               effect_failed_at, lighting_raised>>
           ELSE /\ pc' = AfterEffect(eff_i)
                /\ eff_i' = IF eff_i = Len(effects_to_test) THEN eff_i ELSE eff_i + 1
                /\ UNCHANGED raised
                /\ IF h = "present"
                     THEN /\ effects_present' = effects_present \cup {effects_to_test[eff_i]}
                          /\ effects_tried' = Append(effects_tried, effects_to_test[eff_i])
                          /\ effect_failed_at' = IF c = "raise" /\ effect_failed_at = 0
                                                   THEN eff_i ELSE effect_failed_at
                          /\ lighting_raised' = (lighting_raised \/ c = "raise")
                     ELSE UNCHANGED <<effects_present, effects_tried,
                                      effect_failed_at, lighting_raised>>
    /\ UNCHANGED <<has_lighting, has_fx, has_matrix, has_logo, has_scroll,
                   lighting_ret, static_i, statics_tried, static_failed_at>>
    /\ LightingFrame

\* lines 103-111: logo lighting
DcLogo ==
    /\ DcAt("l_logo")
    /\ \E h \in HasattrOutcomes, c \in ReadOutcomes :
         IF h = "raise"
           THEN /\ DcPropagate
                /\ UNCHANGED <<has_logo, has_lighting, lighting_raised>>
           ELSE /\ pc' = "l_scroll"
                /\ UNCHANGED raised
                /\ IF h = "present"
                     THEN /\ has_logo' = TRUE
                          /\ has_lighting' = TRUE
                          /\ lighting_raised' = (lighting_raised \/ c = "raise")
                     ELSE UNCHANGED <<has_logo, has_lighting, lighting_raised>>
    /\ UNCHANGED <<has_fx, has_matrix, has_scroll, lighting_ret, eff_i, static_i,
                   statics_tried, static_failed_at, effects_present,
                   effects_tried, effect_failed_at>>
    /\ LightingFrame

\* lines 114-122: scroll wheel lighting
DcScroll ==
    /\ DcAt("l_scroll")
    /\ \E h \in HasattrOutcomes, c \in ReadOutcomes :
         IF h = "raise"
           THEN /\ DcPropagate
                /\ UNCHANGED <<has_scroll, has_lighting, lighting_raised>>
           ELSE /\ pc' = "l_return"
                /\ UNCHANGED raised
                /\ IF h = "present"
                     THEN /\ has_scroll' = TRUE
                          /\ has_lighting' = TRUE
                          /\ lighting_raised' = (lighting_raised \/ c = "raise")
                     ELSE UNCHANGED <<has_scroll, has_lighting, lighting_raised>>
    /\ UNCHANGED <<has_fx, has_matrix, has_logo, lighting_ret, eff_i, static_i,
                   statics_tried, static_failed_at, effects_present,
                   effects_tried, effect_failed_at>>
    /\ LightingFrame

BoolStr(b) == IF b THEN "True" ELSE "False"

\* lighting_result that reports success: False once a lighting call raised
lighting_result_success(hl) == hl /\ ~lighting_raised

\* line 124: return has_lighting
lighting_result(hl) == hl

DcLightingReturn ==
    /\ DcAt("l_return")
    /\ lighting_ret' = BoolStr(lighting_result(has_lighting))
    /\ pc' = "other"
    \* the frame of the call is gone: its locals and what the call did
    /\ original_brightness' = Unset
    /\ brightness_before' = brightness
    /\ wrote128' = FALSE
    /\ restore_written' = FALSE
    /\ check_ended' = FALSE
    /\ static_i' = 1
    /\ eff_i' = 1
    /\ statics_tried' = <<>>
    /\ static_failed_at' = 0
    /\ effects_present' = {}
    /\ effects_tried' = <<>>
    /\ effect_failed_at' = 0
    /\ UNCHANGED <<raised, lighting_raised, has_lighting, has_fx, has_matrix,
                   has_logo, has_scroll>>
    /\ UNCHANGED <<script, steps, attempts, blocked, interrupted, exit_code,
                   printed, dwvars, tsvars, devvars, dev_i, ret, other_ret,
                   capabilities_tested, caps_read, caps_attr_ok, cap_i, print_attrs_called,
                   tested>>

OtherFrame ==
    UNCHANGED <<script, steps, attempts, blocked, interrupted, exit_code,
                printed, dwvars, tsvars, devvars, chkvars, dev_i, ret,
                has_lighting, has_fx, has_matrix, has_logo, has_scroll,
                lighting_ret, eff_i, static_i, statics_tried, static_failed_at,
                effects_present, effects_tried, effect_failed_at,
                print_attrs_called>>

\* test_other_capabilities, lines 129-131: the header reads device.name
DcOtherEnter ==
    /\ DcAt("other")
    /\ Called("test_other_capabilities")
    /\ \E nm \in ReadOutcomes :
         IF nm = "raise" THEN DcPropagate
                         ELSE pc' = "o_cap" /\ UNCHANGED raised
    /\ UNCHANGED <<other_ret, capabilities_tested, caps_read, caps_attr_ok, cap_i>>
    /\ OtherFrame

\* line 187: return capabilities_tested > 0
other_result(n) == n > 0

\* lines 134-182: one capability: hasattr outside the try, the reads inside.
\* For dpi the try block also probes and reads available_dpi.
DcCapability ==
    /\ DcAt("o_cap")
    /\ \E h \in HasattrOutcomes, g \in ReadOutcomes,
          ha \in HasattrOutcomes, ga \in ReadOutcomes :
         LET cap == Capabilities[cap_i]
             readOk == /\ g = "ok"
                       /\ cap = "dpi" => (ha = "absent" \/ (ha = "present" /\ ga = "ok"))
             n == IF h = "present" /\ readOk THEN capabilities_tested + 1
                                             ELSE capabilities_tested
         IN IF h = "raise"
              THEN /\ DcPropagate
                   /\ UNCHANGED <<other_ret, capabilities_tested, caps_read, caps_attr_ok, cap_i>>
              ELSE /\ capabilities_tested' = n
                   /\ caps_read' = IF h = "present" /\ readOk
                                     THEN caps_read \cup {cap} ELSE caps_read
                   /\ caps_attr_ok' = IF h = "present" /\ g = "ok"
                                        THEN caps_attr_ok \cup {cap} ELSE caps_attr_ok
                   /\ UNCHANGED raised
                   /\ IF cap_i = Len(Capabilities)
                        THEN /\ other_ret' = BoolStr(other_result(n))
                             /\ pc' = "after"
                             /\ UNCHANGED cap_i
                        ELSE /\ cap_i' = cap_i + 1
                             /\ pc' = "o_cap"
                             /\ UNCHANGED other_ret
    /\ UNCHANGED tested
    /\ OtherFrame

\* the next device starts with fresh locals in the three test functions
ResetCheck ==
    /\ original_brightness' = Unset
    /\ brightness_before' = brightness'
    /\ wrote128' = FALSE
    /\ restore_written' = FALSE
    /\ lighting_raised' = FALSE
    /\ check_ended' = FALSE

ResetFn ==
    /\ has_lighting' = FALSE
    /\ has_fx' = FALSE
    /\ has_matrix' = FALSE
    /\ has_logo' = FALSE
    /\ has_scroll' = FALSE
    /\ lighting_ret' = "none"
    /\ other_ret' = "none"
    /\ capabilities_tested' = 0
    /\ caps_read' = {}
    /\ caps_attr_ok' = {}
    /\ cap_i' = 1
    /\ eff_i' = 1
    /\ static_i' = 1
    /\ statics_tried' = <<>>
    /\ static_failed_at' = 0
    /\ effects_present' = {}
    /\ effects_tried' = <<>>
    /\ effect_failed_at' = 0

\* print_attrs_gate with `or` in place of `and`
print_attrs_gate_or(l, o) == l = "False" \/ o = "False"

\* line 221: `if not has_lighting and not has_other`
print_attrs_gate(l, o) == l = "False" /\ o = "False"

\* main, lines 221-231: print_attrs when nothing was found, then the next
\* device or the end of the loop
DcAfterDevice ==
    /\ DcAt("after")
    /\ \E nm \in ReadOutcomes, pa \in ReadOutcomes :
         LET dump == print_attrs_gate(lighting_ret, other_ret)
         IN /\ print_attrs_called' = IF dump /\ nm = "ok"
                                       THEN print_attrs_called \cup {dev_i}
                                       ELSE print_attrs_called
            /\ IF dump /\ (nm = "raise" \/ pa = "raise")
                 THEN /\ DcPropagate
                      /\ UNCHANGED <<dev_i, ret, brightness, chkvars, fnvars>>
                 ELSE /\ UNCHANGED raised
                      /\ IF dev_i < n_devices
                           THEN /\ dev_i' = dev_i + 1
                                /\ pc' = "info"
                                /\ brightness' \in BrightnessVals
                                /\ ResetCheck
                                /\ ResetFn
                                /\ UNCHANGED ret
                           ELSE /\ ret' = 0
                                /\ pc' = "main_returned"
                                /\ UNCHANGED <<dev_i, brightness, chkvars, fnvars>>
    /\ UNCHANGED <<script, steps, attempts, blocked, interrupted, exit_code,
                   printed, dwvars, tsvars, n_devices, tested>>

\* sys.exit(main())
DcExit ==
    /\ DcAt("main_returned")
    /\ exit_code' = ExitStatus(ret)
    /\ pc' = "exited"
    /\ UNCHANGED <<script, steps, attempts, blocked, raised, interrupted, printed,
                   dwvars, tsvars, devvars, chkvars, dcvars>>

DcNext ==
    \/ DcConnect \/ DcDeviceInfo \/ DcLightingEnter
    \/ DcSaveBrightness \/ DcSetBrightness \/ DcReadBack \/ DcRestoreBrightness
    \/ DcStatic \/ DcEffect \/ DcLogo \/ DcScroll \/ DcLightingReturn
    \/ DcOtherEnter \/ DcCapability \/ DcAfterDevice \/ DcExit

Next == DwNext \/ TsNext \/ DcNext \/ UncaughtExit

\* a run of any of the three scripts
Spec == Init /\ [][Next]_vars

InitLocals == InitCtl /\ InitDwLocals /\ InitTsLocals /\ InitDcLocals

\* runs of debug_workflow.py only
DwInit == InitLocals /\ InitDw /\ InitCheck
SpecDw == DwInit /\ [][DwNext]_vars

\* runs of test_system.py only
TsInit == InitLocals /\ InitTs /\ InitCheck
TsMainNext == TsNext \/ UncaughtExit
SpecTs == TsInit /\ [][TsMainNext]_vars

\* runs of test_device_capabilities.py only
DcInit == InitLocals /\ InitDc /\ InitCheck
DcMainNext == DcNext \/ UncaughtExit
SpecDc == DcInit /\ [][DcMainNext]_vars

(* ---------------------------------------------------------------------- *)
(* Properties                                                              *)
(* ---------------------------------------------------------------------- *)
InSteps(x) == \E k \in 1..Len(steps) : steps[k] = x
InIssues(x) == \E k \in 1..Len(issues_found) : issues_found[k] = x

\* C1: in all three scripts every fallible call is caught at its call site,
\* so no exception ever propagates out of main().
C1_NoExceptionLeavesMain == ~raised

\* C2: every shell command runs under a timeout and is attempted exactly
\* once: no script ever waits on a command that never finishes, and no
\* command is run a second time.
C2_CommandsTimeOutAndRunOnce ==
    /\ ~blocked
    /\ \A c \in Commands : attempts[c] <= 1

IsUnconditional(x) == x \in {"step1", "step2", "step3", "step5", "step6",
                             "step8", "summary"}

\* C3: a run of debug_workflow.main() that the user does not interrupt never
\* stops early: when the process ends, steps 1, 2, 3, 5, 6 and 8 have each
\* run exactly once, in that order, and the summary was printed after step 8.
C3_AllStepsThenSummary ==
    (script = "debug_workflow" /\ pc = "exited" /\ ~interrupted)
      => SelectSeq(steps, IsUnconditional)
           = <<"step1", "step2", "step3", "step5", "step6", "step8", "summary">>

\* the issue labels in the order of the steps that record them
IssueLabels == <<"No hardware detected", "Kernel modules not loaded",
                 "Module files missing", "Device files not created",
                 "Daemon not running", "Python library import failed",
                 "Device detection failed", "User not in plugdev group">>

LabelPos(l) == CHOOSE k \in 1..Len(IssueLabels) : IssueLabels[k] = l

\* every entry is a label, and the entries follow step order without repeats
InStepOrder(issues) ==
    /\ \A i \in 1..Len(issues) : \E k \in 1..Len(IssueLabels) : IssueLabels[k] = issues[i]
    /\ \A i, j \in 1..Len(issues) : i < j => LabelPos(issues[i]) < LabelPos(issues[j])

\* C4 as stated: the exit status of debug_workflow.py equals the number of
\* issues recorded, and is 0 exactly when no check_step failed.
C4_ExitStatusIsIssueCount ==
    (script = "debug_workflow" /\ pc = "exited")
      => /\ exit_code = Len(issues_found)
         /\ (exit_code = 0 <=> checks_failed = 0)

\* C4 amended: when main() returns, the exit status is the number of issues
\* recorded (0 exactly when no check_step failed and "No issues detected" was
\* printed, otherwise the N of "Found N issue(s)"); when the run is ended by
\* KeyboardInterrupt or by an exception leaving main() the exit status is 1;
\* every label is appended at most once, in step order.
C4_ExitStatus ==
    script = "debug_workflow" =>
      /\ InStepOrder(issues_found)
      /\ checks_failed = Len(issues_found)
      /\ (pc = "exited" /\ ~raised /\ ~interrupted) =>
            /\ exit_code = Len(issues_found)
            /\ (exit_code = 0 <=> checks_failed = 0)
            /\ (exit_code = 0 <=> "No issues detected" \in printed)
            /\ (exit_code # 0 => /\ "Found N issue(s)" \in printed
                                 /\ reported = exit_code)
      /\ (pc = "exited" /\ (raised \/ interrupted)) => exit_code = 1

\* main() returned with two issues and the process ended with status 2
C4_Witness ==
    /\ script = "debug_workflow" /\ pc = "exited" /\ ~raised /\ ~interrupted
    /\ Len(issues_found) = 2 /\ exit_code = 2

\* the tests of a finished test_system run that were not counted as passed
FailedTests == {k \in 1..Len(results) : ~results[k]}

\* C5: when test_system.main() prints its summary total_tests is 6 and
\* 0 <= tests_passed <= total_tests; "All tests passed" needs 6 passes; the
\* exit status is 0 iff at most one test failed, and 1 iff two or more did.
C5_SummaryAndExit ==
    script = "test_system" =>
      /\ 0 <= tests_passed /\ tests_passed <= total_tests
      /\ "Test Results" \in printed =>
            /\ total_tests = 6
            /\ Len(results) = 6
            /\ tests_passed = 6 - Cardinality(FailedTests)
            /\ ("All tests passed" \in printed => tests_passed = 6)
      /\ (pc = "exited" /\ ~raised) =>
            /\ (exit_code = 0 <=> Cardinality(FailedTests) <= 1)
            /\ (exit_code = 0 <=> tests_passed >= 5)
            /\ (exit_code = 1 <=> Cardinality(FailedTests) >= 2)

\* a run with exactly one failed test ended with status 0
C5_Witness ==
    /\ script = "test_system" /\ pc = "exited" /\ ~raised
    /\ tests_passed = 5 /\ total_tests = 6 /\ exit_code = 0

\* C6: once a brightness check has written 128, it has written the original
\* value back by the time it ends, whatever the read-back did.
C6_BrightnessWrittenBack ==
    (check_ended /\ wrote128) => restore_written

\* C7: when pylib exists, the import subprocess of step 6 runs with a
\* PYTHONPATH that starts with the pylib path.
C7_ImportSeesPylib ==
    (script = "debug_workflow" /\ sub_pythonpath # NotRun /\ pylib_exists)
      => /\ Len(sub_pythonpath) >= 1
         /\ Head(sub_pythonpath) = "pylib"

Test6Done == script = "test_system" /\ Len(results) = 6

\* the calls C8 names as the ones that can fail test 6
C8ListedCalls == {"import", "DeviceManager", "name", "type", "firmware_version",
                  "driver_version"}

\* C8 as stated: test 6 is counted as failed only when DeviceManager() or the
\* read of name, type, firmware_version or driver_version raises.
C8_FailsOnlyOnListedCalls ==
    Test6Done => (results[6] <=> failed_call \notin C8ListedCalls)

\* every call of test 6 that sits outside the inner try block
Test6OuterCalls ==
    Test6OpenCalls \cup Test6PropCalls
      \cup {"hasattr(device, 'fx')", "device.fx",
            "hasattr(device.fx, 'lighting_led_matrix')"}

\* C8 amended: test 6 is counted as passed exactly when none of the calls
\* outside its inner try raises - the import, DeviceManager(), the reads of
\* .devices and devices[0], name, type, firmware_version, driver_version and
\* the probes of fx - also with no device, a differing read-back or a raising
\* lighting call.
C8_Test6Passes ==
    Test6Done =>
      /\ failed_call \in Test6OuterCalls \cup {"none"}
      /\ (results[6] <=> failed_call = "none")
      /\ (n_devices = 0 /\ failed_call = "none" => results[6])
      /\ (lighting_raised => results[6])

\* test 6 passed although the read-back differed from 128 and a lighting
\* call raised afterwards
C8_Witness ==
    /\ Test6Done /\ results[6]
    /\ "Brightness control: failed" \in printed
    /\ lighting_raised

\* C9: step 4 runs iff steps 1 and 2 succeeded, step 7 runs iff step 6
\* succeeded; so "Device files not created" never meets "No hardware
\* detected" or "Kernel modules not loaded", and "Device detection failed"
\* never meets "Python library import failed".
C9_ConditionalSteps ==
    script = "debug_workflow" =>
      /\ InSteps("step4") => (has_hardware /\ has_modules)
      /\ InSteps("step5") => (InSteps("step4") <=> (has_hardware /\ has_modules))
      /\ InSteps("step7") => (python_works /\ InSteps("step6"))
      /\ (InSteps("step8") \/ raised) => (InSteps("step7") <=> python_works)
      /\ ~(InIssues("Device files not created") /\ InIssues("No hardware detected"))
      /\ ~(InIssues("Device files not created") /\ InIssues("Kernel modules not loaded"))
      /\ ~(InIssues("Device detection failed") /\ InIssues("Python library import failed"))

\* a finished run in which both conditional steps ran and failed
C9_Witness ==
    /\ script = "debug_workflow" /\ pc = "exited" /\ ~raised /\ ~interrupted
    /\ InSteps("step4") /\ InSteps("step7")
    /\ InIssues("Device files not created") /\ InIssues("Device detection failed")

IsPresentEffect(e) == e \in effects_present

AfterStatics == {"l_effects", "l_logo", "l_scroll", "l_return"}
AfterEffects == {"l_logo", "l_scroll", "l_return"}

\* C10: test_lighting_capabilities returns False without fx and otherwise
\* True iff fx has lighting_led_matrix, lighting_logo or lighting_scroll,
\* whatever raised; a failed effect does not stop the later effects, a failed
\* static colour skips the remaining static colours.
C10_LightingReportsAvailability ==
    script = "test_device_capabilities" =>
      /\ lighting_ret # "none" =>
            /\ (~has_fx => lighting_ret = "False")
            /\ (lighting_ret = "True" <=>
                  (has_fx /\ (has_matrix \/ has_logo \/ has_scroll)))
      /\ (pc = "l_effects" /\ has_matrix) =>
            effects_tried = SelectSeq(SubSeq(effects_to_test, 1, eff_i - 1),
                                      IsPresentEffect)
      /\ (pc \in AfterEffects /\ has_matrix) =>
            effects_tried = SelectSeq(effects_to_test, IsPresentEffect)
      /\ (pc \in AfterStatics /\ has_matrix) =>
            statics_tried = IF static_failed_at = 0
                              THEN StaticColours
                              ELSE SubSeq(StaticColours, 1, static_failed_at)

\* the function returned True although a lighting call had raised
C10_Witness ==
    /\ script = "test_device_capabilities" /\ pc = "other"
    /\ lighting_ret = "True" /\ has_matrix /\ lighting_raised

\* the calls main() makes for devices 1..n, in order
RECURSIVE TestedUpTo(_)
TestedUpTo(n) ==
    IF n = 0 THEN <<>>
    ELSE TestedUpTo(n - 1) \o <<[fn |-> "test_device_info", dev |-> n],
                                [fn |-> "test_lighting_capabilities", dev |-> n],
                                [fn |-> "test_other_capabilities", dev |-> n]>>

DcReturned == script = "test_device_capabilities" /\ ret # -1

\* what C11 says about main()'s return value and the devices it tests
C11_ReturnAndOrder ==
    /\ (script = "test_device_capabilities" /\ pc # "connect" /\ ~raised) =>
          ((ret = 1 \/ dev_i = 0)
             <=> ("Error connecting to OpenRazer daemon" \in printed \/ n_devices = 0))
    /\ DcReturned =>
          /\ ret \in {0, 1}
          /\ ret = 1 => (tested = <<>> /\ print_attrs_called = {})
          /\ ret = 0 => (tested = TestedUpTo(n_devices) /\ dev_i = n_devices)
          \* the locals of the last device are still there when main() returns
          /\ ret = 0 => ((dev_i \in print_attrs_called)
                           <=> (lighting_ret = "False" /\ other_ret = "False"))

\* C11 as stated: main() returns 1 exactly when DeviceManager() raises or the
\* list is empty and then tests nothing, otherwise tests every device once in
\* order and returns 0, calling print_attrs iff both capability tests returned
\* False; test_other_capabilities returns True iff at least one of the five
\* attributes was present and read without exception.
C11_OtherTrueIffAnAttributeRead ==
    script = "test_device_capabilities" =>
      /\ C11_ReturnAndOrder
      /\ other_ret # "none" => (other_ret = "True" <=> caps_attr_ok # {})

\* print_attrs is called for the device under test exactly when both
\* capability tests returned False for it, and for no other device
C11_PrintAttrsStep ==
    (DcAt("after") /\ ~raised') =>
       /\ (dev_i \in print_attrs_called')
             <=> (lighting_ret = "False" /\ other_ret = "False")
       /\ print_attrs_called' \ {dev_i} = print_attrs_called

\* C11 amended: whenever main() returns, it returns 1 exactly when
\* DeviceManager() raised or the list was read and is empty, having tested no
\* device, and otherwise 0 after running the three test functions once per
\* device in list order, with print_attrs called for a device iff both
\* capability tests returned False; test_other_capabilities returns True iff
\* it counted a capability: one of the five attributes was present and read
\* without exception, and for dpi the probe and read of available_dpi in the
\* same try block did not raise either.  A run in which an unguarded call
\* raises does not return: the exception leaves main().
C11_MainInv ==
    script = "test_device_capabilities" =>
      /\ C11_ReturnAndOrder
      /\ other_ret # "none" =>
            /\ (other_ret = "True" <=> caps_read # {})
            /\ capabilities_tested = Cardinality(caps_read)
            /\ caps_read \subseteq caps_attr_ok
            /\ caps_attr_ok \ caps_read \subseteq {"dpi"}
      /\ raised => (ret = -1 /\ exit_code \in {-1, 1})

C11_Main == []C11_MainInv /\ [][C11_PrintAttrsStep]_vars

\* main() returned 0 after two devices; print_attrs was called for the first
\* only, and the second has a capability that was read
C11_Witness ==
    /\ DcReturned /\ ret = 0 /\ n_devices = 2
    /\ print_attrs_called = {1}
    /\ other_ret = "True"

====
